---- MODULE Spec2Model ----
(***************************************************************************)
(* ContextWindow of examples/agent-context-manager/context.py: a sliding   *)
(* window over a conversation that pins the system message and trims the   *)
(* oldest turns to a token budget.                                         *)
(*                                                                         *)
(* A message is the record [role, content]; content is a string and its    *)
(* length is Len(content).  Python's None is the record None below, so     *)
(* that self.system always has the shape of a message.  call is the last   *)
(* call made on the object, <<method, arguments...>>, and ret its return   *)
(* value.                                                                  *)
(***************************************************************************)
EXTENDS Integers, Sequences, FiniteSets, TLC

VARIABLES max_tokens, reserve_tokens, count_tokens, system, messages, call, ret

vars == <<max_tokens, reserve_tokens, count_tokens, system, messages, call, ret>>

(* ---------------------------- bounds ----------------------------------- *)

\* longest history the model builds with add
MaxHistory == 3

\* message contents the callers pass: lengths 0, 8 and 16
Contents == {"", "12345678", "0123456789abcdef"}

\* roles the callers pass to add
Roles == {"user", "assistant"}

\* max_tokens arguments of the constructor
MaxTokensArgs == {6, 14, 20}

\* reserve_tokens arguments of the constructor
ReserveTokensArgs == {0, 5, 25}

(* --------------------------- the program ------------------------------- *)

None == [role |-> "None", content |-> ""]

\* truth value of self.system: None is false, a (non-empty) dict is true
Truthy(msg) == msg /= None

estimate_tokens(text) ==
    IF Len(text) \div 4 >= 1 THEN Len(text) \div 4 ELSE 1

\* callables a caller passes as token_counter: the exact length (len), and
\* a counter that discounts twelve characters of framing
TokenCounters ==
    { [text \in Contents |-> Len(text)],
      [text \in Contents |-> Len(text) - 12] }

_message_tokens(msg) == count_tokens[msg.content] + 4

RECURSIVE reversed(_)
reversed(seq) ==
    IF seq = <<>> THEN <<>> ELSE Append(reversed(Tail(seq)), Head(seq))

\* walk with ">=" for ">": a message that fills the budget exactly is dropped
RECURSIVE walk_ge(_, _, _, _)
walk_ge(seq, budget, kept, used) ==
    IF seq = <<>> THEN kept
    ELSE LET msg == Head(seq)
             msg_tokens == _message_tokens(msg)
         IN  IF used + msg_tokens >= budget
             THEN kept
             ELSE walk_ge(Tail(seq), budget, Append(kept, msg), used + msg_tokens)

\* walk with "continue" for "break": an overflowing message is skipped and
\* the walk goes on to the older ones
RECURSIVE walk_continue(_, _, _, _)
walk_continue(seq, budget, kept, used) ==
    IF seq = <<>> THEN kept
    ELSE LET msg == Head(seq)
             msg_tokens == _message_tokens(msg)
         IN  IF used + msg_tokens > budget
             THEN walk_continue(Tail(seq), budget, kept, used)
             ELSE walk_continue(Tail(seq), budget, Append(kept, msg),
                                used + msg_tokens)

\* the for loop of render over reversed(self.messages): seq is what is left
\* to visit, kept and used are the loop's variables; break returns kept
RECURSIVE walk(_, _, _, _)
walk(seq, budget, kept, used) ==
    IF seq = <<>> THEN kept
    ELSE LET msg == Head(seq)
             msg_tokens == _message_tokens(msg)
         IN  IF used + msg_tokens > budget
             THEN kept
             ELSE walk(Tail(seq), budget, Append(kept, msg), used + msg_tokens)

\* render's local system_tokens after "if self.system"
system_tokens == IF Truthy(system) THEN _message_tokens(system) ELSE 0

\* budget without the reserve: the whole of max_tokens is packed
budget_no_reserve == max_tokens - system_tokens

\* render's local budget when the walk starts
budget == (max_tokens - reserve_tokens) - system_tokens

\* kept without kept.reverse(): the kept messages stay newest first
kept_newest_first == walk(reversed(messages), budget, <<>>, 0)

\* render's local kept after kept.reverse()
kept == reversed(walk(reversed(messages), budget, <<>>, 0))

\* render that pins the system message only while it fits the budget
render_if_fits ==
    LET result == IF Truthy(system) /\ budget >= 0 THEN <<system>> ELSE <<>>
    IN  result \o kept

render ==
    LET result == IF Truthy(system) THEN <<system>> ELSE <<>>
    IN  result \o kept

\* sum(self._message_tokens(m) for m in seq)
RECURSIVE sum_tokens(_)
sum_tokens(seq) ==
    IF seq = <<>> THEN 0 ELSE _message_tokens(Head(seq)) + sum_tokens(Tail(seq))

token_count ==
    (IF Truthy(system) THEN _message_tokens(system) ELSE 0) + sum_tokens(messages)

available_tokens == max_tokens - sum_tokens(render)

\* ContextWindow(max_tokens, reserve_tokens, token_counter)
Init ==
    /\ max_tokens \in MaxTokensArgs
    /\ reserve_tokens \in ReserveTokensArgs
    /\ \/ count_tokens = [text \in Contents |-> estimate_tokens(text)]
       \/ count_tokens \in TokenCounters
    /\ system = None
    /\ messages = <<>>
    /\ call = <<"__init__">>
    /\ ret = None

config == <<max_tokens, reserve_tokens, count_tokens>>

set_system(content) ==
    /\ system' = [role |-> "system", content |-> content]
    /\ call' = <<"set_system", content>>
    /\ ret' = None
    /\ UNCHANGED <<config, messages>>

add(role, content) ==
    /\ Len(messages) < MaxHistory
    /\ messages' = Append(messages, [role |-> role, content |-> content])
    /\ call' = <<"add", role, content>>
    /\ ret' = None
    /\ UNCHANGED <<config, system>>

add_user(content) == add("user", content)

add_assistant(content) == add("assistant", content)

\* render that trims self.messages in place to what it returns
Render_in_place ==
    /\ call' = <<"render">>
    /\ ret' = render
    /\ messages' = kept
    /\ UNCHANGED <<config, system>>

Render ==
    /\ call' = <<"render">>
    /\ ret' = render
    /\ UNCHANGED <<config, system, messages>>

TokenCount ==
    /\ call' = <<"token_count">>
    /\ ret' = token_count
    /\ UNCHANGED <<config, system, messages>>

AvailableTokens ==
    /\ call' = <<"available_tokens">>
    /\ ret' = available_tokens
    /\ UNCHANGED <<config, system, messages>>

\* clear with the keep_system test inverted
clear_inverted(keep_system) ==
    /\ messages' = <<>>
    /\ system' = IF keep_system THEN None ELSE system
    /\ call' = <<"clear", keep_system>>
    /\ ret' = None
    /\ UNCHANGED config

clear(keep_system) ==
    /\ messages' = <<>>
    /\ system' = IF ~keep_system THEN None ELSE system
    /\ call' = <<"clear", keep_system>>
    /\ ret' = None
    /\ UNCHANGED config

Next ==
    \/ \E content \in Contents : set_system(content)
    \/ \E content \in Contents : add_user(content)
    \/ \E content \in Contents : add_assistant(content)
    \/ \E role \in Roles, content \in Contents : add(role, content)
    \/ Render
    \/ TokenCount
    \/ AvailableTokens
    \/ \E keep_system \in BOOLEAN : clear(keep_system)

Spec == Init /\ [][Next]_vars

(* ---------------------------- properties ------------------------------- *)

\* the token_counter contract of the spec: every estimate is >= 1
EstimatorValid == \A text \in Contents : count_tokens[text] >= 1

IsSuffix(s, t) ==
    /\ Len(s) <= Len(t)
    /\ s = SubSeq(t, Len(t) - Len(s) + 1, Len(t))

\* the last n messages of the history
Newest(n) == SubSeq(messages, Len(messages) - n + 1, Len(messages))

\* render's result with the pinned message removed from its front
History(rendered) ==
    IF Truthy(system) /\ rendered /= <<>> THEN Tail(rendered) ELSE rendered

\* C1: once set_system has been called, render's first element is the most
\* recently set system message, whatever the budget: set_system(c) makes the
\* pinned message [system, c]; add, render, token_count, available_tokens and
\* clear(keep_system=True) leave it alone; and a pinned message is always the
\* head of render's result.
C1_PinnedFirst ==
    /\ [](Truthy(system) => render /= <<>> /\ Head(render) = system)
    /\ [][ /\ (call'[1] = "set_system"
                => system' = [role |-> "system", content |-> call'[2]])
          /\ (/\ Truthy(system)
              /\ \/ call'[1] \in {"add", "render", "token_count",
                                  "available_tokens"}
                 \/ call' = <<"clear", TRUE>>
              => system' = system)
        ]_vars

\* a pinned message that alone exceeds max_tokens - reserve_tokens, history
\* added after it, and render still returned it first
C1_Witness ==
    /\ Truthy(system)
    /\ _message_tokens(system) > max_tokens - reserve_tokens
    /\ messages /= <<>>
    /\ call = <<"render">>
    /\ Head(ret) = system

\* C2: render's result without the pinned message is a contiguous suffix of
\* the history: same messages, same order, only the oldest missing.
C2_RenderIsSuffix ==
    /\ Truthy(system) => render /= <<>> /\ Head(render) = system
    /\ IsSuffix(History(render), messages)

\* render returned two different messages of a longer history
C2_Witness ==
    /\ call = <<"render">>
    /\ Len(messages) = 3
    /\ Len(History(ret)) = 2
    /\ messages[2] /= messages[3]
    /\ messages[1] /= messages[2]

C4_NewestPreserved ==
    messages /= <<>> =>
        \E i \in 1..Len(render) : render[i] = messages[Len(messages)]

\* C5: available_tokens() is max_tokens minus the summed cost of render's
\* result, and it is negative when the pinned message's cost alone exceeds
\* max_tokens.
C5_AvailableTokens ==
    /\ call = <<"available_tokens">> => ret = max_tokens - sum_tokens(render)
    /\ (Truthy(system) /\ _message_tokens(system) > max_tokens
          => available_tokens < 0)

\* C6: every accounted cost is at least 1 + 4 = 5, whatever the estimator
\* returns.
C6_CostAtLeastFive ==
    /\ Truthy(system) => _message_tokens(system) >= 5
    /\ \A i \in 1..Len(messages) : _message_tokens(messages[i]) >= 5

\* C7: render, token_count and available_tokens change neither the pinned
\* message nor the history; a render right after a render returns the same
\* sequence; the history changes only by one message appended (add) or by
\* becoming empty (clear).
C7_ReadersAreFrame ==
    [][ /\ (call'[1] \in {"render", "token_count", "available_tokens"}
              => system' = system /\ messages' = messages)
        /\ (call = <<"render">> /\ call' = <<"render">> => ret' = ret)
        /\ \/ messages' = messages
           \/ /\ call'[1] = "add"
              /\ Len(messages') = Len(messages) + 1
              /\ SubSeq(messages', 1, Len(messages)) = messages
           \/ /\ call'[1] = "clear"
              /\ messages' = <<>>
      ]_vars

\* render returned a trimmed view and the history is still whole
C7_Witness ==
    /\ call = <<"render">>
    /\ Len(messages) = 3
    /\ Len(History(ret)) < 3
    /\ ret = render

\* C8: clear(keep_system=True) empties the history and keeps the pinned
\* message, so render returns [pinned] or the empty sequence;
\* clear(keep_system=False) empties the history and unsets the pinned message,
\* so render returns the empty sequence and token_count returns 0.
C8_Clear ==
    [][ /\ (call' = <<"clear", TRUE>> =>
              /\ messages' = <<>>
              /\ system' = system
              /\ render' = IF Truthy(system) THEN <<system>> ELSE <<>>)
        /\ (call' = <<"clear", FALSE>> =>
              /\ messages' = <<>>
              /\ system' = None
              /\ render' = <<>>
              /\ token_count' = 0)
      ]_vars

\* clear(keep_system=True) has run and the pinned message is still there
C8_Witness ==
    /\ call = <<"clear", TRUE>>
    /\ Truthy(system)
    /\ messages = <<>>
    /\ render = <<system>>

\* C9: with estimates >= 1, the pre-existing messages render keeps after an
\* add are a suffix of those it kept before the add: either nothing is kept,
\* or the new message is the last one kept and the rest is a suffix of the
\* old kept sequence.
C9_AddMonotone ==
    [][ (EstimatorValid /\ call'[1] = "add") =>
            LET before == History(render)
                after == History(render')
            IN  \/ after = <<>>
                \/ /\ after[Len(after)] = messages'[Len(messages')]
                   /\ IsSuffix(SubSeq(after, 1, Len(after) - 1), before)
      ]_vars

\* after an add only the new message is kept, although the message before it
\* fits the budget alone and so was kept before the add
C9_Witness ==
    /\ EstimatorValid
    /\ call[1] = "add"
    /\ Len(messages) >= 2
    /\ Len(History(render)) = 1
    /\ _message_tokens(messages[Len(messages) - 1]) <= budget

\* C10 as stated: with estimates >= 1, whenever no pinned message is set or
\* the pinned message's cost is <= max_tokens - reserve_tokens, the summed
\* cost of render's result is <= max_tokens - reserve_tokens.
C10_ReserveAsStated ==
    (/\ EstimatorValid
     /\ \/ ~Truthy(system)
        \/ _message_tokens(system) <= max_tokens - reserve_tokens)
    => /\ sum_tokens(render) <= max_tokens - reserve_tokens
       /\ available_tokens >= reserve_tokens

\* C10 amended: the same, for reserve_tokens <= max_tokens; the bound fails
\* only when the pinned message alone exceeds max_tokens - reserve_tokens or
\* reserve_tokens > max_tokens, and then render holds no history message.
C10_ReserveGuarantee ==
    EstimatorValid =>
      /\ (/\ reserve_tokens <= max_tokens
          /\ \/ ~Truthy(system)
             \/ _message_tokens(system) <= max_tokens - reserve_tokens)
         => /\ sum_tokens(render) <= max_tokens - reserve_tokens
            /\ available_tokens >= reserve_tokens
      /\ sum_tokens(render) > max_tokens - reserve_tokens
         => /\ History(render) = <<>>
            /\ \/ reserve_tokens > max_tokens
               \/ /\ Truthy(system)
                  /\ _message_tokens(system) > max_tokens - reserve_tokens

\* a pinned message that fits, a history that does not fit whole, and
\* available_tokens returned at least the reserve
C10_Witness ==
    /\ EstimatorValid
    /\ reserve_tokens > 0
    /\ Truthy(system)
    /\ _message_tokens(system) <= max_tokens - reserve_tokens
    /\ Len(messages) = 3
    /\ Len(History(render)) \in 1..2
    /\ call = <<"available_tokens">>
    /\ ret >= reserve_tokens

====
